---- MODULE Spec2Model ----
(***************************************************************************)
(* Model of src/main.rs: the axum handler get_heroes, the data-access      *)
(* trait HeroesRepositoryTrait and its two implementations (the reference  *)
(* HeroesRepository and a scripted implementation returning any outcome    *)
(* the trait's signature allows).                                          *)
(*                                                                         *)
(* A Rust string is a sequence of one-character strings.  The query-string *)
(* extraction (axum's Query) is the transport's work: a request arrives    *)
(* here as the already parsed Option<String> of GetHeroFilter.name.        *)
(***************************************************************************)
EXTENDS Naturals, Sequences, FiniteSets

\* ---------------------------------------------------------------- bounds
\* Longest name parameter / pattern enumerated exhaustively over Alphabet.
MaxLen == 3
\* Number of requests in flight at once in SpecConc.
NumRequests == 2

Alphabet == {"W", "o", "D", "%"}

\* ------------------------------------------------------------- strings
Wonder == <<"W", "o", "n", "d", "e", "r">>
Spider == <<"S", "p", "i", "d", "e", "r">>
WonderWoman == Wonder \o <<" ", "W", "o", "m", "a", "n">>
Deadpool == <<"D", "e", "a", "d", "p", "o", "o", "l">>
Pct == <<"%">>

\* All strings over Alphabet of length at most n.
Strs(n) == UNION {[1..k -> Alphabet] : k \in 0..n}

\* Longer inputs that the hero names and the repository's tests make interesting.
Samples ==
    { Wonder, Wonder \o Pct, Wonder \o Pct \o Pct,
      Spider, Spider \o Pct,
      WonderWoman, WonderWoman \o Pct, WonderWoman \o <<"!">>,
      Deadpool, Deadpool \o Pct, Deadpool \o Pct \o Pct,
      <<"w", "o", "n", "d", "e", "r">>,
      <<"D", "e", "%", "a", "d">>, <<"D", "e", "%", "a", "d", "%">> }

Names == Strs(MaxLen) \cup Samples

\* Option<String>
None == [some |-> FALSE, val |-> <<>>]
Some(v) == [some |-> TRUE, val |-> v]

Params == {None} \cup {Some(n) : n \in Names}

\* A small set of parameters for the concurrent specification.
ConcParams == {None, Some(Wonder), Some(Spider), Some(<<"D", "%">>), Some(Deadpool)}

\* str::ends_with(char)
ends_with(s, c) == Len(s) > 0 /\ s[Len(s)] = c

\* str::strip_suffix(char) as trim_end_matches would do it: every trailing c goes.
RECURSIVE trim_end_matches(_, _)
trim_end_matches(s, c) ==
    IF ends_with(s, c) THEN trim_end_matches(SubSeq(s, 1, Len(s) - 1), c) ELSE s

strip_suffix_all(s, c) ==
    IF ends_with(s, c) THEN Some(trim_end_matches(s, c)) ELSE None

\* str::strip_suffix(char): Some(s without its last character) when s ends in c.
strip_suffix(s, c) ==
    IF ends_with(s, c) THEN Some(SubSeq(s, 1, Len(s) - 1)) ELSE None

\* Mutations of starts_with: equality, and substring containment.
starts_with_eq(s, p) == s = p

starts_with_contains(s, p) ==
    \E i \in 1..(Len(s) + 1) :
        i + Len(p) - 1 <= Len(s) /\ SubSeq(s, i, i + Len(p) - 1) = p

\* str::starts_with(&str)
starts_with(s, p) == Len(p) <= Len(s) /\ SubSeq(s, 1, Len(p)) = p

\* ---------------------------------------------------------------- data
Hero(i, n) == [id |-> i, name |-> n]

\* const HEROES: [Hero; 2]
HEROES == << Hero(<<"1">>, WonderWoman), Hero(<<"2">>, Deadpool) >>

\* Hero::default(), the dummy hero of the tests
DefaultHero == Hero(<<>>, <<>>)

\* Result<Vec<Hero>, DataAccessError>
Ok(hs) == [ok |-> TRUE, heroes |-> hs, err |-> "none"]
Err(e) == [ok |-> FALSE, heroes |-> <<>>, err |-> e]

DataAccessError == {"NotFound", "TechnicalError", "OtherError"}

NoResult == [ok |-> FALSE, heroes |-> <<>>, err |-> "unset"]

\* What an implementation of the trait other than the reference one may return.
ScriptedOutcomes ==
    {Ok(<<DefaultHero>>), Ok(HEROES), Ok(<<>>)} \cup {Err(e) : e \in DataAccessError}

\* ------------------------------------------------------------ responses
StatusOK == 200
StatusNotFound == 404
StatusInternalServerError == 500

\* serde's derived Serialize for Hero: an object with the keys id and name.
HeroToJson(h) == [kind |-> "object", fields |-> << <<"id", h.id>>, <<"name", h.name>> >>]

\* Json(heroes): a JSON array of the serialized heroes.
Json(hs) == [kind |-> "array", elems |-> [i \in 1..Len(hs) |-> HeroToJson(hs[i])]]

EmptyBody == [kind |-> "empty", elems |-> <<>>]

Response(s, b) == [status |-> s, body |-> b]

NoResponse == Response(0, EmptyBody)

\* ---------------------------------------------------------------- state
Requests == 1..NumRequests

VARIABLES
    heroes,       \* the stored entities get_by_name enumerates (HEROES)
    repoKind,     \* which implementation the router's state holds
    pc,           \* per request: idle, normalized, sleeping, returned, responded
    param,        \* per request: GetHeroFilter.name
    name_filter,  \* per request: the handler's local name_filter
    passed,       \* per request: the arguments of its get_by_name calls, in order
    branch,       \* per request: the arm the filter closure took
    result,       \* per request: what get_by_name returned
    response,     \* per request: the response get_heroes produced
    overlapped    \* per request: another request was suspended when its lookup ran

vars == <<heroes, repoKind, pc, param, name_filter, passed, branch, result,
          response, overlapped>>

\* ------------------------------------------------------------ get_heroes
\* Mutations of the normalization: the marker is never, or always, appended.
normalize_never_append(p) == IF p.some THEN p.val ELSE Pct

normalize_always_append(p) == (IF p.some THEN p.val ELSE Pct) \o Pct

\* name_filter after lines 112-116: unwrap_or("%"), then push('%') unless it
\* already ends with '%'.
normalize(p) ==
    LET unwrapped == IF p.some THEN p.val ELSE Pct
    IN  IF ~ends_with(unwrapped, "%") THEN Append(unwrapped, "%") ELSE unwrapped

\* The request arrives and the handler runs up to its call of the repository.
get_heroes_begin(r, p) ==
    /\ pc[r] = "idle"
    /\ pc' = [pc EXCEPT ![r] = "normalized"]
    /\ param' = [param EXCEPT ![r] = p]
    /\ name_filter' = [name_filter EXCEPT ![r] = normalize(p)]
    /\ UNCHANGED <<heroes, repoKind, passed, branch, result, response, overlapped>>

\* Mutation of the call: the raw parameter is passed instead of name_filter.
call_reference_raw(r) ==
    /\ repoKind = "reference"
    /\ pc[r] = "normalized"
    /\ pc' = [pc EXCEPT ![r] = "sleeping"]
    /\ passed' = [passed EXCEPT ![r] = Append(@, param[r].val)]
    /\ UNCHANGED <<heroes, repoKind, param, name_filter, branch, result, response,
                   overlapped>>

\* repo.get_by_name(name_filter.as_str()) on the reference repository: the call
\* runs to time::sleep(..).await and suspends there.
call_reference(r) ==
    /\ repoKind = "reference"
    /\ pc[r] = "normalized"
    /\ pc' = [pc EXCEPT ![r] = "sleeping"]
    /\ passed' = [passed EXCEPT ![r] = Append(@, name_filter[r])]
    /\ UNCHANGED <<heroes, repoKind, param, name_filter, branch, result, response,
                   overlapped>>

\* repo.get_by_name(name_filter.as_str()) on a scripted implementation, which
\* returns the outcome it was set up with.
call_scripted(r, out) ==
    /\ repoKind = "scripted"
    /\ pc[r] = "normalized"
    /\ pc' = [pc EXCEPT ![r] = "returned"]
    /\ passed' = [passed EXCEPT ![r] = Append(@, name_filter[r])]
    /\ result' = [result EXCEPT ![r] = out]
    /\ UNCHANGED <<heroes, repoKind, param, name_filter, branch, response, overlapped>>

\* ------------------------------------------- HeroesRepository::get_by_name
\* The closure given to filter.
hero_matches(hero, name) ==
    LET stripped_name == strip_suffix(name, "%")
    IN  IF stripped_name.some
        THEN starts_with(hero.name, stripped_name.val)
        ELSE hero.name = name

\* The arm of the closure's if let that a pattern selects.
closure_branch(name) == IF strip_suffix(name, "%").some THEN "prefix" ELSE "exact"

\* HEROES.into_iter().filter(..).collect()
found_heroes(store, name) ==
    LET keep(hero) == hero_matches(hero, name)
    IN  SelectSeq(store, keep)

\* Mutation of the final if: the empty check is missing.
get_by_name_result_unchecked(found) == Ok(found)

\* if found_heroes.is_empty() { Err(NotFound) } else { Ok(found_heroes) }
get_by_name_result(found) ==
    IF found = <<>> THEN Err("NotFound") ELSE Ok(found)

\* Mutation of the lookup: the iteration drains the shared collection.
get_by_name_filter_draining(r) ==
    LET name == passed[r][Len(passed[r])]
        keep(hero) == ~hero_matches(hero, name)
    IN  /\ pc[r] = "sleeping"
        /\ pc' = [pc EXCEPT ![r] = "returned"]
        /\ branch' = [branch EXCEPT ![r] = closure_branch(name)]
        /\ result' = [result EXCEPT ![r] = get_by_name_result(found_heroes(heroes, name))]
        /\ overlapped' = [overlapped EXCEPT ![r] =
                             \E q \in Requests \ {r} : pc[q] = "sleeping"]
        /\ heroes' = SelectSeq(heroes, keep)
        /\ UNCHANGED <<repoKind, param, name_filter, passed, response>>

\* The sleep is over: the lookup filters a copy of HEROES and returns.
get_by_name_filter(r) ==
    LET name == passed[r][Len(passed[r])]
    IN  /\ pc[r] = "sleeping"
        /\ pc' = [pc EXCEPT ![r] = "returned"]
        /\ branch' = [branch EXCEPT ![r] = closure_branch(name)]
        /\ result' = [result EXCEPT ![r] = get_by_name_result(found_heroes(heroes, name))]
        /\ overlapped' = [overlapped EXCEPT ![r] =
                             \E q \in Requests \ {r} : pc[q] = "sleeping"]
        /\ UNCHANGED <<heroes, repoKind, param, name_filter, passed, response>>

\* ------------------------------------------------------- get_heroes, match
\* Mutation of the match: every error is reported as not found.
into_response_all_not_found(res) ==
    IF res.ok THEN Response(StatusOK, Json(res.heroes))
    ELSE Response(StatusNotFound, EmptyBody)

\* match result { Err(NotFound) => 404, Ok(heroes) => Json(heroes), Err(_) => 500 }
into_response(res) ==
    IF ~res.ok /\ res.err = "NotFound" THEN Response(StatusNotFound, EmptyBody)
    ELSE IF res.ok THEN Response(StatusOK, Json(res.heroes))
    ELSE Response(StatusInternalServerError, EmptyBody)

\* Mutation of the handler's end: a technical error makes it call again.
get_heroes_respond_retry(r) ==
    /\ pc[r] = "returned"
    /\ IF ~result[r].ok /\ result[r].err = "TechnicalError"
       THEN /\ pc' = [pc EXCEPT ![r] = "normalized"]
            /\ UNCHANGED response
       ELSE /\ pc' = [pc EXCEPT ![r] = "responded"]
            /\ response' = [response EXCEPT ![r] = into_response(result[r])]
    /\ UNCHANGED <<heroes, repoKind, param, name_filter, passed, branch, result,
                   overlapped>>

\* The call has returned: the handler maps the outcome and returns the response.
get_heroes_respond(r) ==
    /\ pc[r] = "returned"
    /\ pc' = [pc EXCEPT ![r] = "responded"]
    /\ response' = [response EXCEPT ![r] = into_response(result[r])]
    /\ UNCHANGED <<heroes, repoKind, param, name_filter, passed, branch, result,
                   overlapped>>

\* ------------------------------------------------------- specifications
InitRequests ==
    /\ heroes = HEROES
    /\ pc = [r \in Requests |-> "idle"]
    /\ param = [r \in Requests |-> None]
    /\ name_filter = [r \in Requests |-> <<>>]
    /\ passed = [r \in Requests |-> <<>>]
    /\ branch = [r \in Requests |-> "none"]
    /\ result = [r \in Requests |-> NoResult]
    /\ response = [r \in Requests |-> NoResponse]
    /\ overlapped = [r \in Requests |-> FALSE]

\* One request at a time, any name parameter, either implementation of the trait.
Init ==
    /\ InitRequests
    /\ repoKind \in {"reference", "scripted"}

Next ==
    \/ \E p \in Params : get_heroes_begin(1, p)
    \/ call_reference(1)
    \/ \E out \in ScriptedOutcomes : call_scripted(1, out)
    \/ get_by_name_filter(1)
    \/ get_heroes_respond(1)

Spec == Init /\ [][Next]_vars

\* Several requests in flight against the shared reference repository.
InitConc ==
    /\ InitRequests
    /\ repoKind = "reference"

NextConc ==
    \E r \in Requests :
        \/ \E p \in ConcParams : get_heroes_begin(r, p)
        \/ call_reference(r)
        \/ get_by_name_filter(r)
        \/ get_heroes_respond(r)

SpecConc == InitConc /\ [][NextConc]_vars

\* get_by_name of the reference repository called with any pattern: the call is
\* suspended in its sleep with the pattern as its argument.
Patterns == Names

InitRepo ==
    /\ heroes = HEROES
    /\ repoKind = "reference"
    /\ pc = [r \in Requests |-> IF r = 1 THEN "sleeping" ELSE "idle"]
    /\ param = [r \in Requests |-> None]
    /\ name_filter = [r \in Requests |-> <<>>]
    /\ \E pattern \in Patterns :
           passed = [r \in Requests |-> IF r = 1 THEN <<pattern>> ELSE <<>>]
    /\ branch = [r \in Requests |-> "none"]
    /\ result = [r \in Requests |-> NoResult]
    /\ response = [r \in Requests |-> NoResponse]
    /\ overlapped = [r \in Requests |-> FALSE]

NextRepo == get_by_name_filter(1)

SpecRepo == InitRepo /\ [][NextRepo]_vars

\* ------------------------------------------------------------ properties
\* The request has invoked get_by_name.
Called(r) == pc[r] \in {"sleeping", "returned", "responded"}

\* p is a prefix of s, character by character.
HasPrefix(s, p) == Len(p) <= Len(s) /\ \A i \in 1..Len(p) : s[i] = p[i]

\* The matching rule of the repository contract: a pattern ending in the marker
\* matches the names that start with the pattern less that one marker; any other
\* pattern matches the name equal to it.
MatchesPattern(heroName, pattern) ==
    IF Len(pattern) > 0 /\ pattern[Len(pattern)] = "%"
    THEN HasPrefix(heroName, [i \in 1..(Len(pattern) - 1) |-> pattern[i]])
    ELSE heroName = pattern

\* C1: a name parameter n that is present and does not end in '%' (the empty
\* string included) reaches get_by_name as n followed by one '%'.
C1_MarkerAppended ==
    \A r \in Requests :
        (Called(r) /\ param[r].some /\ ~ends_with(param[r].val, "%"))
            => passed[r] = << param[r].val \o <<"%">> >>

C1_Witness ==
    \E r \in Requests :
        pc[r] = "responded" /\ param[r] = Some(<<>>) /\ passed[r] = << <<"%">> >>

\* C2: a name parameter n that already ends in '%' reaches get_by_name as n, and
\* normalizing a normalized filter gives the same filter.
C2_MarkerNotDoubled ==
    \A r \in Requests :
        /\ (Called(r) /\ param[r].some /\ ends_with(param[r].val, "%"))
               => passed[r] = << param[r].val >>
        /\ pc[r] # "idle" => normalize(Some(name_filter[r])) = name_filter[r]

C2_Witness ==
    \E r \in Requests :
        /\ pc[r] = "responded"
        /\ param[r] = Some(Wonder \o <<"%">>)
        /\ passed[r] = << Wonder \o <<"%">> >>

\* C3: without a name parameter get_by_name is called with "%" alone, and the
\* reference repository's response is 200 with both heroes in the body.
C3_AbsentNameGivesAll ==
    \A r \in Requests :
        (Called(r) /\ ~param[r].some) =>
            /\ passed[r] = << <<"%">> >>
            /\ (repoKind = "reference" /\ pc[r] = "responded") =>
                   /\ response[r].status = 200
                   /\ response[r].body.kind = "array"
                   /\ response[r].body.elems =
                          << [kind |-> "object",
                              fields |-> << <<"id", <<"1">> >>, <<"name", WonderWoman>> >>],
                             [kind |-> "object",
                              fields |-> << <<"id", <<"2">> >>, <<"name", Deadpool>> >>] >>

C3_Witness ==
    \E r \in Requests :
        /\ repoKind = "reference"
        /\ pc[r] = "responded"
        /\ ~param[r].some
        /\ Len(response[r].body.elems) = 2

\* C4: the response is decided by the repository outcome alone: Ok gives 200 and
\* a JSON array, NotFound gives 404 and an empty body, TechnicalError and
\* OtherError give 500 and an empty body; there is no other status and an error
\* response carries no body.
C4_StatusMapping ==
    \A r \in Requests :
        pc[r] = "responded" =>
            /\ response[r].status \in {200, 404, 500}
            /\ result[r].ok =>
                   /\ response[r].status = 200
                   /\ response[r].body.kind = "array"
                   /\ Len(response[r].body.elems) = Len(result[r].heroes)
                   /\ \A i \in 1..Len(result[r].heroes) :
                          response[r].body.elems[i].fields =
                              << <<"id", result[r].heroes[i].id>>,
                                 <<"name", result[r].heroes[i].name>> >>
            /\ (~result[r].ok /\ result[r].err = "NotFound") =>
                   response[r] = [status |-> 404, body |-> EmptyBody]
            /\ (~result[r].ok /\ result[r].err \in {"TechnicalError", "OtherError"}) =>
                   response[r] = [status |-> 500, body |-> EmptyBody]
            /\ response[r].status # 200 => response[r].body = EmptyBody

C4_Witness ==
    \E r \in Requests :
        /\ pc[r] = "responded"
        /\ result[r] = Err("OtherError")
        /\ response[r].status = 500

\* The response the reference repository owes a request whose matching heroes
\* are those satisfying keep.
ExpectedResponse(r, keep(_)) ==
    LET expected == SelectSeq(HEROES, keep)
    IN  IF expected = <<>>
        THEN response[r] = [status |-> 404, body |-> EmptyBody]
        ELSE /\ response[r].status = 200
             /\ response[r].body.kind = "array"
             /\ Len(response[r].body.elems) = Len(expected)
             /\ \A i \in 1..Len(expected) :
                    response[r].body.elems[i].fields =
                        << <<"id", expected[i].id>>, <<"name", expected[i].name>> >>

\* A request answered by the reference repository whose name parameter is present
\* and has no trailing '%'.
AnsweredPlainName(r) ==
    /\ repoKind = "reference"
    /\ pc[r] = "responded"
    /\ param[r].some
    /\ ~ends_with(param[r].val, "%")

\* C5 as stated: a name parameter without a trailing '%' is an exact-match filter:
\* the response holds the heroes whose name equals it, and is 404 when none does.
C5_ExactMatchOverHttp ==
    \A r \in Requests :
        AnsweredPlainName(r) =>
            LET equal(hero) == hero.name = param[r].val
            IN  ExpectedResponse(r, equal)

\* C5 amended: a name parameter without a trailing '%' is a prefix filter: the
\* response holds the heroes whose name starts with it, and is 404 when none does.
C5_PrefixMatchOverHttp ==
    \A r \in Requests :
        AnsweredPlainName(r) =>
            LET prefixed(hero) == HasPrefix(hero.name, param[r].val)
            IN  ExpectedResponse(r, prefixed)

C5_Witness ==
    \E r \in Requests :
        /\ AnsweredPlainName(r)
        /\ param[r].val = Wonder
        /\ response[r].status = 200
        /\ Len(response[r].body.elems) = 1

\* C6: the reference get_by_name returns Err(NotFound) exactly when no stored
\* hero matches the pattern and a non-empty Ok otherwise; never an empty Ok,
\* never TechnicalError or OtherError.
C6_NotFoundIffNoMatch ==
    \A r \in Requests :
        (repoKind = "reference" /\ pc[r] = "returned") =>
            LET pattern == passed[r][1]
                some_match == \E i \in 1..Len(HEROES) :
                                  MatchesPattern(HEROES[i].name, pattern)
            IN  /\ result[r] = Err("NotFound") <=> ~some_match
                /\ some_match => (result[r].ok /\ Len(result[r].heroes) > 0)
                /\ ~(result[r].ok /\ result[r].heroes = <<>>)
                /\ result[r].err \notin {"TechnicalError", "OtherError"}

C6_Witness ==
    \E r \in Requests :
        /\ pc[r] = "returned"
        /\ passed[r] = <<Spider>>
        /\ result[r] = Err("NotFound")

\* C7: the heroes the reference get_by_name returns are the stored heroes, in
\* their stored order, that match the pattern: by prefix on the pattern less one
\* trailing '%' when it ends in '%', by equality otherwise.
C7_ReturnsExactlyMatches ==
    \A r \in Requests :
        (repoKind = "reference" /\ pc[r] = "returned") =>
            LET pattern == passed[r][1]
                matching(hero) == MatchesPattern(hero.name, pattern)
            IN  result[r].heroes = SelectSeq(HEROES, matching)

C7_Witness ==
    \E r \in Requests :
        /\ pc[r] = "returned"
        /\ passed[r] = << Wonder \o <<"%", "%">> >>
        /\ branch[r] = "prefix"
        /\ result[r] = Err("NotFound")

\* C8: every filter get_heroes has passed to get_by_name is non-empty and ends
\* in '%', so the closure's equality arm is never taken for a handled request.
C8_FilterEndsWithMarker ==
    \A r \in Requests :
        /\ \A i \in 1..Len(passed[r]) :
               Len(passed[r][i]) > 0 /\ passed[r][i][Len(passed[r][i])] = "%"
        /\ branch[r] # "exact"

C8_Witness ==
    \E r \in Requests :
        /\ repoKind = "reference"
        /\ pc[r] = "responded"
        /\ param[r] = Some(Deadpool)
        /\ branch[r] = "prefix"

\* C9: a request calls get_by_name once, after normalization and before its
\* response exists; no outcome makes it call again, and the response is produced
\* only once the call has returned.
C9_SingleCall ==
    \A r \in Requests :
        /\ Len(passed[r]) <= 1
        /\ pc[r] \in {"idle", "normalized"} =>
               passed[r] = <<>> /\ result[r] = NoResult /\ response[r] = NoResponse
        /\ Called(r) => passed[r] = << name_filter[r] >>
        /\ pc[r] = "sleeping" => result[r] = NoResult /\ response[r] = NoResponse
        /\ pc[r] = "returned" => result[r] # NoResult /\ response[r] = NoResponse
        /\ pc[r] = "responded" => result[r] # NoResult /\ response[r] # NoResponse

C9_Witness ==
    \E r \in Requests :
        /\ pc[r] = "responded"
        /\ result[r] = Err("TechnicalError")
        /\ Len(passed[r]) = 1

\* The response of a request with parameter p that runs alone.
AloneResponse(p) ==
    into_response(get_by_name_result(found_heroes(HEROES, normalize(p))))

\* C10: with requests interleaved at the lookup's suspension, every response
\* equals the one the same parameter gets when run alone, and the stored heroes
\* never change.
C10_RequestsIndependent ==
    /\ heroes = HEROES
    /\ \A r \in Requests :
           pc[r] = "responded" => response[r] = AloneResponse(param[r])

C10_Witness ==
    \E r, q \in Requests :
        /\ r # q
        /\ pc[r] = "responded" /\ pc[q] = "responded"
        /\ overlapped[r]
        /\ response[r].status = 200 /\ response[q].status = 404

====
